---- MODULE Spec2Model ----
(***************************************************************************)
(* A model of generate_speedtest_graph.py: main() as a sequential state    *)
(* machine (read file, Loader loop, DataFrame + sort, timezone, filter,    *)
(* figure, plot, tick labels, savefig, close, print).                      *)
(*                                                                         *)
(* Time is counted in whole hours since 2024-01-01T00:00.  A timestamp is  *)
(* a wall-clock reading plus, when it is timezone-aware, its UTC offset in *)
(* hours; the instant it denotes is wall - off.                            *)
(* Optional values (Python None) are sequences: <<>> is None, <<v>> is v.  *)
(***************************************************************************)
EXTENDS Integers, Sequences, FiniteSets, TLC

VARIABLES
    file,          \* the input file: [readable, lines]
    args,          \* the arguments of main() (line 16)
    environ,       \* os.environ as far as it has been read (name -> value)
    pc,            \* position in main()
    records,       \* the list built by the Loader loop (lines 24-40)
    df,            \* the DataFrame (lines 42-60)
    tz_name,       \* line 45
    now,           \* line 53, <<>> until read
    fig,           \* "none" | "open" | "closed"
    plotted,       \* the rows handed to ax.plot (lines 82-91)
    visible_labels,\* line 118 / 120
    stdout,        \* lines printed to standard output
    stderr,        \* messages printed to standard error
    exit_code,     \* <<>> while running, <<0>> or <<1>> once terminated
    raised,        \* the uncaught exception that ended the run: <<>> or <<name, line>>
    run,           \* number of the invocation (1-based)
    prev           \* outcomes of the earlier invocations

vars == <<file, args, environ, pc, records, df, tz_name, now, fig, plotted,
          visible_labels, stdout, stderr, exit_code, raised, run, prev>>

----------------------------------------------------------------------------
\* Bounds of the model.

\* lines in the input file
MaxLines == 2
\* invocations of the program on the same input
MaxRuns == 2
\* points in the filtered frame when the tick-label code is checked alone
MaxPoints == 12

None == <<>>
Some(v) == <<v>>

\* Python truthiness of an optional int / str argument: None, 0 and "" are falsy.
TruthyInt(o) == o # None /\ o[1] # 0
TruthyStr(o) == o # None /\ o[1] # ""

----------------------------------------------------------------------------
\* The input records (one JSON line each).

TsField(kind, wall, suffix) == [kind |-> kind, wall |-> wall, suffix |-> suffix]
NumField(kind, val) == [kind |-> kind, val |-> val]

Entry(json, ts, dl, ul, ping, loss) ==
    [json |-> json, ts |-> ts, dl |-> dl, ul |-> ul, ping |-> ping, loss |-> loss]

GoodBw == NumField("number", 12500000)
GoodPing == NumField("number", 20)
\* no "packetLoss" key, "packetLoss": 3, "packetLoss": "n/a"
NoLoss == NumField("missing", 0)
SomeLoss == NumField("number", 3)
TextLoss == NumField("string", 0)

\* timestamp "2024-01-01T20:00:00Z", "2024-01-02T00:00:00Z",
\* "2024-01-02T06:00:00+10:00" (the instant of the first), "2024-01-02T00:00:00"
TsZ20 == TsField("iso", 20, "Z")
TsZ24 == TsField("iso", 24, "Z")
TsPlus10 == TsField("iso", 30, "+10:00")
TsNaive == TsField("iso", 24, "")

Entries ==
    { Entry(FALSE, TsZ20, GoodBw, GoodBw, GoodPing, NoLoss),
      Entry(TRUE, TsZ20, GoodBw, GoodBw, GoodPing, NoLoss),
      Entry(TRUE, TsZ24, GoodBw, GoodBw, GoodPing, NoLoss),
      Entry(TRUE, TsPlus10, GoodBw, GoodBw, GoodPing, NoLoss),
      Entry(TRUE, TsNaive, GoodBw, GoodBw, GoodPing, NoLoss),
      Entry(TRUE, TsField("missing", 0, ""), GoodBw, GoodBw, GoodPing, NoLoss),
      Entry(TRUE, TsField("number", 0, ""), GoodBw, GoodBw, GoodPing, NoLoss),
      Entry(TRUE, TsField("notiso", 0, ""), GoodBw, GoodBw, GoodPing, NoLoss),
      Entry(TRUE, TsZ24, NumField("missing", 0), GoodBw, GoodPing, NoLoss),
      Entry(TRUE, TsZ24, NumField("string", 0), GoodBw, GoodPing, NoLoss),
      Entry(TRUE, TsZ24, GoodBw, NumField("missing", 0), GoodPing, NoLoss),
      Entry(TRUE, TsZ24, GoodBw, GoodBw, NumField("missing", 0), NoLoss),
      Entry(TRUE, TsZ24, GoodBw, GoodBw, NumField("string", 0), NoLoss),
      Entry(TRUE, TsZ24, GoodBw, GoodBw, GoodPing, SomeLoss),
      Entry(TRUE, TsZ24, GoodBw, GoodBw, GoodPing, TextLoss) }

Files ==
    { [readable |-> FALSE, lines |-> <<>>] } \cup
    { [readable |-> TRUE, lines |-> l] :
        l \in UNION { [1..n -> Entries] : n \in 0..MaxLines } }

----------------------------------------------------------------------------
\* Arguments (line 16; height_px and max_mbps only shape the picture and are
\* left out) and environment.

Args ==
    [tz_override : {None, Some(""), Some("UTC"), Some("Nonexistent/Zone")},
     show_all : BOOLEAN,
     last_hours : {None, Some(0), Some(2)},
     width_px : {None, Some(40), Some(160)}]

\* The environment does not change between invocations: what a run observes
\* of it is drawn where the code first looks (line 45) and kept.
TZValues == {None, Some("Australia/Brisbane"), Some("Nonexistent/Zone")}

Observes(f, k, v) == k \in DOMAIN f => v = f[k]
Bind(f, k, v) == IF k \in DOMAIN f THEN f ELSE (k :> v) @@ f

\* the clock, in hours (UTC)
NowValues == {26, 50}

\* zoneinfo.ZoneInfo(name): the zones the model knows, with their UTC offset
Recognised(name) == name \in {"UTC", "Australia/Brisbane"}
ZoneOffset(name) == IF name = "Australia/Brisbane" THEN 10 ELSE 0

----------------------------------------------------------------------------
\* Lines 17-22: open + json.loads of every line.  Any failure is fatal.

ReadFails(f) == ~f.readable \/ \E i \in 1..Len(f.lines) : ~f.lines[i].json

----------------------------------------------------------------------------
\* Lines 24-40: the Loader.

Timestamp(wall, aware, off) == [wall |-> wall, aware |-> aware, off |-> off]

\* line 27: s.replace("Z", "+00:00") then datetime.fromisoformat
FromIso(ts) ==
    LET suffix == IF ts.suffix = "Z" THEN "+00:00" ELSE ts.suffix
    IN  CASE suffix = ""       -> Timestamp(ts.wall, FALSE, 0)
          [] suffix = "+00:00" -> Timestamp(ts.wall, TRUE, 0)
          [] suffix = "+10:00" -> Timestamp(ts.wall, TRUE, 10)

Instant(t) == t.wall - t.off

\* What one pass through the loop body does with an entry:
\*   "append" (lines 32-38), "skip" (KeyError / ValueError, lines 39-40) or
\*   "raise" (any other exception leaves the loop and main()): a timestamp
\*   that is no string has no .replace, and text * 8 / 1_000_000 is a TypeError.
LoadEntry(e) ==
    CASE e.ts.kind = "missing"   -> [res |-> "skip", exc |-> "KeyError", line |-> 27]
      [] e.ts.kind = "number"    -> [res |-> "raise", exc |-> "AttributeError", line |-> 27]
      [] e.ts.kind = "notiso"    -> [res |-> "skip", exc |-> "ValueError", line |-> 27]
      [] e.dl.kind = "missing"   -> [res |-> "skip", exc |-> "KeyError", line |-> 28]
      [] e.dl.kind = "string"    -> [res |-> "raise", exc |-> "TypeError", line |-> 28]
      [] e.ul.kind = "missing"   -> [res |-> "skip", exc |-> "KeyError", line |-> 29]
      [] e.ul.kind = "string"    -> [res |-> "raise", exc |-> "TypeError", line |-> 29]
      [] e.ping.kind = "missing" -> [res |-> "skip", exc |-> "KeyError", line |-> 30]
      [] OTHER                   -> [res |-> "append", exc |-> "", line |-> 38]

\* line 31: entry.get("packetLoss", 0), stored unchecked
PacketLoss(e) == IF e.loss.kind = "missing" THEN NumField("number", 0) ELSE e.loss

\* lines 27-38; bandwidth * 8 is kept in bit/s (Mbps times 1e6)
Row(e) ==
    [timestamp |-> FromIso(e.ts),
     download_mbps |-> e.dl.val * 8,
     upload_mbps |-> e.ul.val * 8,
     latency_ms |-> e.ping,
     packet_loss_percent |-> PacketLoss(e)]

RECURSIVE Loader(_, _)
Loader(data, acc) ==
    IF data = <<>> THEN [exc |-> "", line |-> 40, records |-> acc]
    ELSE LET r == LoadEntry(Head(data))
         IN  CASE r.res = "raise"  -> [exc |-> r.exc, line |-> r.line, records |-> acc]
               [] r.res = "skip"   -> Loader(Tail(data), acc)
               [] r.res = "append" -> Loader(Tail(data), Append(acc, Row(Head(data))))

----------------------------------------------------------------------------
\* Lines 42-43: pd.DataFrame(records).sort_values("timestamp").

\* An empty frame has no "timestamp" column (KeyError); naive and aware
\* datetimes cannot be compared (TypeError).
FrameError(rows) ==
    CASE rows = <<>> -> "KeyError"
      [] \E i, j \in 1..Len(rows) :
            rows[i].timestamp.aware /\ ~rows[j].timestamp.aware -> "TypeError"
      [] OTHER -> ""

RECURSIVE Insert(_, _)
Insert(sorted, r) ==
    IF sorted = <<>> THEN <<r>>
    ELSE IF Instant(r.timestamp) < Instant(Head(sorted).timestamp)
         THEN <<r>> \o sorted
         ELSE <<Head(sorted)>> \o Insert(Tail(sorted), r)

RECURSIVE SortValues(_)
SortValues(rows) ==
    IF rows = <<>> THEN <<>>
    ELSE Insert(SortValues(SubSeq(rows, 1, Len(rows) - 1)), rows[Len(rows)])

----------------------------------------------------------------------------
\* Lines 45-51: timezone.

\* line 45
ResolveTz(tz_override, env_TZ) ==
    IF TruthyStr(tz_override) THEN tz_override[1]
    ELSE IF env_TZ # None THEN env_TZ[1] ELSE "UTC"

\* line 48: the column has a .dt.tz_convert only when it is a tz-aware
\* datetime column, i.e. every value is aware and all carry the same offset
Convertible(rows) ==
    \A i \in 1..Len(rows) :
        /\ rows[i].timestamp.aware
        /\ rows[i].timestamp.off = rows[1].timestamp.off

InZone(t, zoff) == Timestamp(Instant(t) + zoff, TRUE, zoff)

TzConvert(rows, zoff) ==
    [i \in 1..Len(rows) |->
        [rows[i] EXCEPT !.timestamp = InZone(rows[i].timestamp, zoff)]]

\* line 47-48 raise
TzFails(name, rows) == ~Recognised(name) \/ ~Convertible(rows)

----------------------------------------------------------------------------
\* Lines 53-60: the filter.

\* Timestamp.normalize(): midnight of the same local day
Normalize(t) == Timestamp(t.wall - (t.wall % 24), t.aware, t.off)

\* show_all is ignored: the today-only filter is always applied
FilterRowsTodayAlways(rows, nowts, last_hours, show_all) ==
    IF TruthyInt(last_hours)
    THEN LET since == Instant(nowts) - last_hours[1]
             Keep(r) == Instant(r.timestamp) >= since
         IN  SelectSeq(rows, Keep)
    ELSE LET today == Normalize(nowts)
             Keep(r) == Instant(Normalize(r.timestamp)) = Instant(today)
         IN  SelectSeq(rows, Keep)

FilterRows(rows, nowts, last_hours, show_all) ==
    IF TruthyInt(last_hours)
    THEN LET since == Instant(nowts) - last_hours[1]
             Keep(r) == Instant(r.timestamp) >= since
         IN  SelectSeq(rows, Keep)
    ELSE IF ~show_all
    THEN LET today == Normalize(nowts)
             Keep(r) == Instant(Normalize(r.timestamp)) = Instant(today)
         IN  SelectSeq(rows, Keep)
    ELSE rows

----------------------------------------------------------------------------
\* Lines 112-121: tick labels in fixed-width mode.

\* ts.strftime("%H:%M"): <<hour, minute>>; the blank label "" is <<>>
Strftime(t) == <<t.wall % 24, 0>>
Blank == <<>>

\* line 115: int(width_px / 80)
MaxLabels(width) == width \div 80

\* np.ceil(a / b) for a >= 0, b > 0
Ceil(a, b) == (a + b - 1) \div b

\* the quotient is rounded down instead of up
IntervalFloor(label_count, max_labels) == label_count \div max_labels

\* line 117
Interval(label_count, max_labels) == Ceil(label_count, max_labels)

\* line 116-117: the division raises when max_labels is 0
LabelError(x_labels, width) ==
    IF Len(x_labels) > MaxLabels(width) /\ MaxLabels(width) = 0
    THEN "ZeroDivisionError" ELSE ""

\* lines 116-120, when the division does not raise
VisibleLabels(x_labels, width) ==
    LET label_count == Len(x_labels)
        max_labels == MaxLabels(width)
    IN  IF label_count > max_labels
        THEN LET interval == Interval(label_count, max_labels)
             IN  [k \in 1..label_count |->
                    IF (k - 1) % interval = 0 THEN Strftime(x_labels[k].timestamp)
                    ELSE Blank]
        ELSE [k \in 1..label_count |-> Strftime(x_labels[k].timestamp)]

----------------------------------------------------------------------------
\* Lines 82-110: plotting.  The Loader stores ping.latency and packetLoss as
\* they are (lines 30-31), so either column may hold text.  ax2.plot draws a
\* column of numbers, and a column of text as categories, but raises on a
\* column that mixes the two: ValueError when the first value (in frame
\* order) is a number, TypeError when it is text.

ColumnKinds(rows, col) == {rows[i][col].kind : i \in 1..Len(rows)}

PlotError(rows, col) ==
    IF Cardinality(ColumnKinds(rows, col)) > 1
    THEN IF rows[1][col].kind = "number" THEN "ValueError" ELSE "TypeError"
    ELSE ""

\* line 93: set_ylim(bottom=0, top=df["latency_ms"].max()).  A text maximum
\* is its category number (0: the model has one latency text); equal limits
\* make matplotlib warn on stderr and carry on.
YlimWarns(rows) ==
    LET vals == {rows[i].latency_ms.val : i \in 1..Len(rows)}
        top == IF ColumnKinds(rows, "latency_ms") = {"string"} THEN 0
               ELSE CHOOSE v \in vals : \A w \in vals : w <= v
    IN  top = 0

\* lines 66-74: the width of the figure in pixels at 100 per inch
FigureWidth(width_px, rows) ==
    IF TruthyInt(width_px) THEN width_px[1]
    ELSE IF Len(rows) * 50 > 1000 THEN Len(rows) * 50 ELSE 1000

\* line 110: plt.tight_layout().  With the default pad (1.08 times the 10 pt
\* font, on either side) and the tick labels and axis labels left of ax1 and
\* right of ax2, the left and right margins have to leave room for the axes:
\* when they take the whole width matplotlib warns on stderr ("Tight layout
\* not applied"), leaves the layout alone and carries on.  Widths in pixels;
\* the decorations are about 0.57 in on either side for the values drawn.
TightLayoutWarns(width_px, rows) ==
    LET pad == 15
        decorations == 57
        margin_left == decorations + pad
        margin_right == decorations + pad
    IN  margin_left + margin_right >= FigureWidth(width_px, rows)

\* lines 82-110 when no plot call raises: the warnings written to stderr
PlotWarnings(rows, width_px) ==
    (IF YlimWarns(rows) THEN <<"UserWarning: identical ylims">> ELSE <<>>)
    \o (IF TightLayoutWarns(width_px, rows)
        THEN <<"UserWarning: Tight layout not applied">> ELSE <<>>)

----------------------------------------------------------------------------
\* How main() ends.

DataUri == "data:image/png;base64,<payload>"

\* the message goes to standard output instead
FatalOnStdout(msg) ==
    /\ stdout' = Append(stdout, msg)
    /\ stderr' = stderr
    /\ exit_code' = Some(1)
    /\ raised' = <<>>
    /\ pc' = "done"

\* print(..., file=sys.stderr); sys.exit(1)    (lines 21-22, 50-51, 63-64)
Fatal(msg) ==
    /\ stderr' = Append(stderr, msg)
    /\ stdout' = stdout
    /\ exit_code' = Some(1)
    /\ raised' = <<>>
    /\ pc' = "done"

\* an exception no handler catches: traceback on stderr, exit status 1
Uncaught(exc, line) ==
    /\ stderr' = Append(stderr, "Traceback")
    /\ stdout' = stdout
    /\ exit_code' = Some(1)
    /\ raised' = <<exc, line>>
    /\ pc' = "done"

\* the step went through
Goto(label) ==
    /\ pc' = label
    /\ UNCHANGED <<stdout, stderr, exit_code, raised>>

----------------------------------------------------------------------------
\* The steps of main().

Init ==
    /\ file \in Files
    /\ args \in Args
    /\ environ = <<>>
    /\ pc = "read"
    /\ records = <<>>
    /\ df = <<>>
    /\ tz_name = ""
    /\ now = None
    /\ fig = "none"
    /\ plotted = <<>>
    /\ visible_labels = <<>>
    /\ stdout = <<>>
    /\ stderr = <<>>
    /\ exit_code = None
    /\ raised = <<>>
    /\ run = 1
    /\ prev = <<>>

\* lines 17-22
ReadFile ==
    /\ pc = "read"
    /\ IF ReadFails(file) THEN Fatal("Error reading file") ELSE Goto("load")
    /\ UNCHANGED <<file, args, environ, records, df, tz_name, now, fig, plotted,
                   visible_labels, run, prev>>

\* lines 24-40
LoadRecords ==
    /\ pc = "load"
    /\ LET r == Loader(file.lines, <<>>)
       IN  /\ records' = r.records
           /\ IF r.exc # "" THEN Uncaught(r.exc, r.line) ELSE Goto("frame")
    /\ UNCHANGED <<file, args, environ, df, tz_name, now, fig, plotted,
                   visible_labels, run, prev>>

\* lines 42-43
BuildFrame ==
    /\ pc = "frame"
    /\ IF FrameError(records) # ""
       THEN Uncaught(FrameError(records), 43) /\ df' = df
       ELSE Goto("tz") /\ df' = SortValues(records)
    /\ UNCHANGED <<file, args, environ, records, tz_name, now, fig, plotted,
                   visible_labels, run, prev>>

\* lines 45-51; os.environ is consulted only when tz_override is falsy
ConvertTz ==
    /\ pc = "tz"
    /\ \E e \in TZValues :
        /\ IF TruthyStr(args.tz_override)
           THEN e = None /\ environ' = environ
           ELSE Observes(environ, "TZ", e) /\ environ' = Bind(environ, "TZ", e)
        /\ tz_name' = ResolveTz(args.tz_override, e)
        /\ IF TzFails(ResolveTz(args.tz_override, e), df)
           THEN Fatal("Invalid TZ setting") /\ df' = df
           ELSE /\ Goto("filter")
                /\ df' = TzConvert(df, ZoneOffset(ResolveTz(args.tz_override, e)))
    /\ UNCHANGED <<file, args, records, now, fig, plotted, visible_labels,
                   run, prev>>

\* the clock does not run backwards from one invocation to the next
ClockValues ==
    {n \in NowValues : \A i \in 1..Len(prev) : prev[i].now = None \/ n >= prev[i].now[1]}

\* lines 53-64
FilterFrame ==
    /\ pc = "filter"
    /\ \E n \in ClockValues :
        /\ now' = Some(n)
        /\ LET nowts == Timestamp(n + ZoneOffset(tz_name), TRUE, ZoneOffset(tz_name))
               kept == FilterRows(df, nowts, args.last_hours, args.show_all)
           IN  /\ df' = kept
               /\ IF kept = <<>> THEN Fatal("No data to plot") ELSE Goto("figure")
    /\ UNCHANGED <<file, args, environ, records, tz_name, fig, plotted,
                   visible_labels, run, prev>>

\* lines 66-80
CreateFigure ==
    /\ pc = "figure"
    /\ fig' = "open"
    /\ Goto("plot")
    /\ UNCHANGED <<file, args, environ, records, df, tz_name, now, plotted, visible_labels,
                   run, prev>>

\* lines 82-110
PlotSeries ==
    /\ pc = "plot"
    /\ CASE PlotError(df, "latency_ms") # "" ->
               Uncaught(PlotError(df, "latency_ms"), 90) /\ plotted' = plotted
         [] PlotError(df, "latency_ms") = "" /\ PlotError(df, "packet_loss_percent") # "" ->
               Uncaught(PlotError(df, "packet_loss_percent"), 91) /\ plotted' = plotted
         [] OTHER ->
               /\ plotted' = df
               /\ pc' = "ticks"
               /\ stderr' = stderr \o PlotWarnings(df, args.width_px)
               /\ UNCHANGED <<stdout, exit_code, raised>>
    /\ UNCHANGED <<file, args, environ, records, df, tz_name, now, fig, visible_labels,
                   run, prev>>

\* lines 112-123
SetTicks ==
    /\ pc = "ticks"
    /\ LET w == args.width_px
       IN  IF TruthyInt(w)
           THEN IF LabelError(df, w[1]) # ""
                THEN Uncaught(LabelError(df, w[1]), 117) /\ visible_labels' = visible_labels
                ELSE Goto("save") /\ visible_labels' = VisibleLabels(df, w[1])
           ELSE Goto("save") /\ visible_labels' = visible_labels
    /\ UNCHANGED <<file, args, environ, records, df, tz_name, now, fig, plotted, run, prev>>

\* lines 125-126
SaveFig ==
    /\ pc = "save"
    /\ Goto("close")
    /\ UNCHANGED <<file, args, environ, records, df, tz_name, now, fig, plotted,
                   visible_labels, run, prev>>

\* line 127
CloseFig ==
    /\ pc = "close"
    /\ fig' = "closed"
    /\ Goto("print")
    /\ UNCHANGED <<file, args, environ, records, df, tz_name, now, plotted,
                   visible_labels, run, prev>>

\* lines 128-131, and the return from main()
Emit ==
    /\ pc = "print"
    /\ stdout' = Append(stdout, DataUri)
    /\ exit_code' = Some(0)
    /\ pc' = "done"
    /\ UNCHANGED <<file, args, environ, records, df, tz_name, now, fig, plotted,
                   visible_labels, stderr, raised, run, prev>>

\* what an invocation leaves behind for an observer: its exit code, the
\* points of the chart it printed (none when it printed no chart), and the
\* time at which it ran
Outcome ==
    [code |-> exit_code,
     points |-> IF stdout = <<DataUri>> THEN plotted ELSE <<>>,
     now |-> now]

\* lines 133-153: the program is invoked again on the same file, with the
\* same arguments and environment; nothing else survives the process
Invoke ==
    /\ pc = "done"
    /\ run < MaxRuns
    /\ run' = run + 1
    /\ prev' = Append(prev, Outcome)
    /\ pc' = "read"
    /\ records' = <<>>
    /\ df' = <<>>
    /\ tz_name' = ""
    /\ now' = None
    /\ fig' = "none"
    /\ plotted' = <<>>
    /\ visible_labels' = <<>>
    /\ stdout' = <<>>
    /\ stderr' = <<>>
    /\ exit_code' = None
    /\ raised' = <<>>
    /\ UNCHANGED <<file, args, environ>>

Next ==
    \/ ReadFile
    \/ LoadRecords
    \/ BuildFrame
    \/ ConvertTz
    \/ FilterFrame
    \/ CreateFigure
    \/ PlotSeries
    \/ SetTicks
    \/ SaveFig
    \/ CloseFig
    \/ Emit

\* one invocation of the program
Spec == Init /\ [][Next]_vars

\* Repeated invocations on the same file, arguments and environment.  The
\* files hold the records that get a run to the clock (line 53) and the ones
\* that end it on the way there or in the plot.
RepeatEntries ==
    { e \in Entries :
        /\ e.dl = GoodBw /\ e.ul = GoodBw /\ e.loss = NoLoss
        /\ e.ts.kind \in {"iso", "missing"}
        /\ e.ping.kind # "missing" }

InitRepeat == Init /\ \A i \in 1..Len(file.lines) : file.lines[i] \in RepeatEntries

NextRepeat == Next \/ Invoke

SpecRepeat == InitRepeat /\ [][NextRepeat]_vars

----------------------------------------------------------------------------
\* The tick-label code (lines 112-121) on its own: main() stands at line 112
\* in fixed-width or automatic mode with 1..MaxPoints hourly points, all
\* shown (--all, --tz UTC).

LabelWidths ==
    {None, Some(1), Some(79), Some(80), Some(159), Some(160), Some(400), Some(960)}

HourlyLines(n) ==
    [i \in 1..n |-> Entry(TRUE, TsField("iso", 24 + i - 1, "Z"), GoodBw, GoodBw, GoodPing, NoLoss)]

InitLabels ==
    /\ \E n \in 1..MaxPoints : file = [readable |-> TRUE, lines |-> HourlyLines(n)]
    /\ \E w \in LabelWidths :
         args = [tz_override |-> Some("UTC"), show_all |-> TRUE,
                 last_hours |-> None, width_px |-> w]
    /\ environ = <<>>
    /\ pc = "ticks"
    /\ records = Loader(file.lines, <<>>).records
    /\ tz_name = ResolveTz(args.tz_override, None)
    /\ now = Some(50)
    /\ df = FilterRows(TzConvert(SortValues(records), ZoneOffset(tz_name)),
                       Timestamp(50, TRUE, 0), args.last_hours, args.show_all)
    /\ fig = "open"
    /\ plotted = df
    /\ visible_labels = <<>>
    /\ stdout = <<>>
    /\ stderr = PlotWarnings(df, args.width_px)
    /\ exit_code = None
    /\ raised = <<>>
    /\ run = 1
    /\ prev = <<>>

SpecLabels == InitLabels /\ [][SetTicks]_vars

----------------------------------------------------------------------------
\* Vocabulary of the properties.

Range(seq) == {seq[i] : i \in 1..Len(seq)}

\* a record with all four required values present and of the expected type
ValidEntry(e) ==
    /\ e.ts.kind = "iso"
    /\ e.dl.kind = "number"
    /\ e.ul.kind = "number"
    /\ e.ping.kind = "number"

\* the Loader loop has been left, one way or the other
LoaderLeft == pc \notin {"read", "load"} /\ ~ReadFails(file)

\* the run ended with an exception raised inside the Loader loop
LoaderAborted == raised # <<>> /\ raised[2] <= 40

Terminated == pc = "done"

\* what a fatal outcome leaves on stderr (lines 21, 50, 63, and a traceback)
FatalMessages ==
    {"Error reading file", "Invalid TZ setting", "No data to plot", "Traceback"}

----------------------------------------------------------------------------
\* C1: when every line is valid JSON and at least one record is fully valid,
\* each record with a missing or wrongly typed required value is dropped on
\* its own: the Loader does not abort and loads exactly the valid records.
C1_LoaderDropsInvalid ==
    (LoaderLeft /\ \E e \in Range(file.lines) : ValidEntry(e))
    => /\ ~LoaderAborted
       /\ records = LET valid == SelectSeq(file.lines, ValidEntry)
                    IN  [i \in 1..Len(valid) |-> Row(valid[i])]

\* C2: the rows that survive the filter are those of the reference: with
\* last_hours = N given (N = 0 included) the rows at or after now - N hours;
\* otherwise, without show_all, the rows dated today in the resolved zone;
\* otherwise all rows.
C2_FilterMatchesReference ==
    now # None =>
        LET zoff == ZoneOffset(tz_name)
            Date(t) == (Instant(t) + zoff) \div 24
            Keep(r) ==
                IF args.last_hours # None
                THEN Instant(r.timestamp) >= now[1] - args.last_hours[1]
                ELSE IF ~args.show_all
                THEN Date(r.timestamp) = (now[1] + zoff) \div 24
                ELSE TRUE
        IN  Range(df) =
              { [r EXCEPT !.timestamp = InZone(r.timestamp, zoff)] :
                    r \in {x \in Range(records) : Keep(x)} }

\* C3: standard output holds nothing or exactly the one data-URI line; the
\* line is there exactly when the run ended with exit code 0, and a run that
\* ended any other way exited non-zero with nothing on standard output.
C3_StdoutAllOrNothing ==
    /\ stdout \in {<<>>, <<DataUri>>}
    /\ stdout = <<DataUri>> <=> exit_code = Some(0)
    /\ Terminated => exit_code \in {Some(0), Some(1)}
    /\ (Terminated /\ (Range(stderr) \cap FatalMessages # {} \/ raised # <<>>))
         => exit_code = Some(1) /\ stdout = <<>>

C3_Witness ==
    Terminated /\ exit_code = Some(0) /\ stdout = <<DataUri>> /\ fig = "closed"

\* C4: a run in which no measurement survives loading and filtering (the
\* empty file included) ends through the empty-result error: exit code 1,
\* "No data to plot" on stderr, nothing on stdout.
C4_EmptyResultIsFatal ==
    (/\ Terminated
     /\ ~ReadFails(file)
     /\ ~LoaderAborted
     /\ records = <<>> \/ (now # None /\ df = <<>>))
    => /\ exit_code = Some(1)
       /\ stderr = <<"No data to plot">>
       /\ stdout = <<>>

\* C5: the timezone name is the override when given, else TZ when set, else
\* UTC; and every run whose records were read and whose resolved name is not
\* a recognised zone ends with exit code 1 and the invalid-timezone message.
C5_UnrecognisedTzIsFatal ==
    /\ tz_name # "" =>
         tz_name = IF TruthyStr(args.tz_override) THEN args.tz_override[1]
                   ELSE IF "TZ" \in DOMAIN environ /\ environ["TZ"] # None
                   THEN environ["TZ"][1] ELSE "UTC"
    /\ (/\ Terminated
        /\ ~ReadFails(file)
        /\ ~LoaderAborted
        /\ \/ TruthyStr(args.tz_override) /\ ~Recognised(args.tz_override[1])
           \/ tz_name # "" /\ ~Recognised(tz_name))
       => exit_code = Some(1) /\ stderr = <<"Invalid TZ setting">>

\* C6: in fixed-width mode with width_px >= 1 and at least one point, the
\* stride computation never divides by zero.
C6_StrideNeverDividesByZero ==
    (TruthyInt(args.width_px) /\ df # <<>>)
    => ~(raised # <<>> /\ raised[1] = "ZeroDivisionError")

\* C7: once the figure has been created, it is closed before the run ends.
C7_FigureReleased == Terminated => fig # "open"

\* C8 as stated: a later run on the same file, arguments and TZ ends with the
\* same exit code and the same plotted points as every earlier run.
C8_RunsAgree ==
    Terminated =>
        \A i \in 1..Len(prev) :
            prev[i].code = Outcome.code /\ prev[i].points = Outcome.points

\* the filter of lines 55-60 compares against the clock
TimeRelative == TruthyInt(args.last_hours) \/ ~args.show_all

\* C8, amended: the runs agree whenever the filter is not relative to the
\* clock (show_all set and last_hours absent or 0).
C8_RunsAgreeUnlessTimeRelative ==
    (Terminated /\ ~TimeRelative) =>
        \A i \in 1..Len(prev) :
            prev[i].code = Outcome.code /\ prev[i].points = Outcome.points

C8_Witness ==
    /\ Terminated
    /\ ~TimeRelative
    /\ prev # <<>>
    /\ prev[1].now # None /\ now # None /\ now[1] > prev[1].now[1]
    /\ exit_code = Some(0)
    /\ plotted # <<>>

\* C9: in fixed-width mode with max_labels = int(width_px / 80) >= 1 and at
\* least one point, there is one label per point, the first is not blank, at
\* most max_labels are not blank; nothing is blanked when the points fit, and
\* otherwise the labels kept are those at multiples of ceil(count / max).
C9_LabelThinning ==
    (/\ pc = "save"
     /\ TruthyInt(args.width_px)
     /\ args.width_px[1] \div 80 >= 1
     /\ Len(df) >= 1)
    => LET n == Len(df)
           m == args.width_px[1] \div 80
           shown == {k \in 1..Len(visible_labels) : visible_labels[k] # Blank}
           stride == IF n % m = 0 THEN n \div m ELSE n \div m + 1
       IN  /\ Len(visible_labels) = n
           /\ 1 \in shown
           /\ Cardinality(shown) <= m
           /\ n <= m => shown = 1..n
           /\ n > m => shown = {k \in 1..n : (k - 1) % stride = 0}

C9_Witness ==
    /\ pc = "save"
    /\ TruthyInt(args.width_px)
    /\ args.width_px[1] \div 80 = 2
    /\ Len(df) = 7
    /\ Len(visible_labels) = 7
    /\ visible_labels[2] = Blank
    /\ visible_labels[5] # Blank

\* C10: the invalid-timezone error is reported only when the resolved
\* timezone name is not a recognised zone.
C10_InvalidTzOnlyWhenUnrecognised ==
    "Invalid TZ setting" \in Range(stderr) => ~Recognised(tz_name)

====
